---- MODULE Spec2Model ----
(***************************************************************************)
(* A model of the cerm crate (src/src/lib.rs): the macros err_code!, err!, *)
(* warn! and require!, expanded statement by statement and run by the      *)
(* threads of one process against one standard error stream.               *)
(*                                                                         *)
(* A process is a record: its argument list, the writes made to its        *)
(* standard error so far, its termination state, every macro invocation    *)
(* made so far (never forgotten, so that an invocation's own output and    *)
(* fate can be read back), and each thread's stack of running invocations. *)
(* P is the process; Q is a second process that only the side-by-side      *)
(* specification SpecEq runs.                                              *)
(***************************************************************************)
EXTENDS Integers, Sequences, FiniteSets, TLC

VARIABLES P, Q

vars == <<P, Q>>

(***************************************************************************)
(* Bounds.                                                                 *)
(***************************************************************************)
\* Macro invocations per process, nested ones included.
MaxCalls == 2
\* Threads of the process.
NumThreads == 2

Threads == 1..NumThreads

(***************************************************************************)
(* Values, and their text form (std::fmt::Display).                        *)
(***************************************************************************)
Str(s) == [tag |-> "str", s |-> s, n |-> 0]
Num(n) == [tag |-> "int", s |-> "", n |-> n]
Unit == [tag |-> "unit", s |-> "", n |-> 0]

\* What "{}" renders a value as: a string as itself, an integer in decimal.
Display(v) == IF v.tag = "str" THEN v.s
              ELSE IF v.tag = "int" THEN ToString(v.n)
              ELSE "()"

(***************************************************************************)
(* Format templates.  A template is the sequence of its pieces, a piece    *)
(* being literal text or the placeholder Hole; the compiler has checked    *)
(* that a template has as many placeholders as arguments.                  *)
(***************************************************************************)
Hole == "{}"

RECURSIVE Format(_, _)
Format(tmpl, vals) ==
    IF tmpl = <<>> THEN ""
    ELSE IF Head(tmpl) = Hole
         THEN Display(Head(vals)) \o Format(Tail(tmpl), Tail(vals))
         ELSE Head(tmpl) \o Format(Tail(tmpl), vals)

(***************************************************************************)
(* Expressions a caller passes as format arguments: a literal, or a block  *)
(* { call!(...); v } that runs a macro invocation before it yields v.      *)
(***************************************************************************)
NoFmt == [tmpl |-> <<>>, args |-> <<>>]
NoOutcome == [tag |-> "-", v |-> Unit]
NoCall == [op |-> "none", code |-> 0, fmt |-> NoFmt, e |-> NoOutcome]

Lit(v) == [kind |-> "lit", v |-> v, call |-> NoCall]
Block(call, v) == [kind |-> "block", v |-> v, call |-> call]

\* The invocations nested in the arguments of a format.
RECURSIVE NestedIn(_)
NestedIn(args) ==
    IF args = <<>> THEN 0
    ELSE (IF Head(args).kind = "block" THEN 1 ELSE 0) + NestedIn(Tail(args))

(***************************************************************************)
(* The macros, as the statements they expand to.                           *)
(***************************************************************************)
Stmt(s, fmt, code, v) == [s |-> s, fmt |-> fmt, code |-> code, v |-> v]

\* eprint!("{}: ", env::args().next().unwrap_or("Error".into()))
EprintName == Stmt("eprint", NoFmt, 0, Unit)
\* eprintln!($($fmt)+)
EprintlnFmt(fmt) == Stmt("eprintln", fmt, 0, Unit)
\* process::exit($code)
ExitStmt(code) == Stmt("exit", NoFmt, code, Unit)
\* A match arm  Ok(v) => v  or  Some(v) => v
YieldStmt(v) == Stmt("yield", NoFmt, 0, v)

\* Faulty variants of err_code, which the properties must tell from it: one
\* that never exits, one that exits before the message, one that writes the
\* message before the prefix.
err_code_NoExit(code, fmt) == <<EprintName, EprintlnFmt(fmt)>>
err_code_ExitFirst(code, fmt) == <<EprintName, ExitStmt(code), EprintlnFmt(fmt)>>
err_code_MessageFirst(code, fmt) == <<EprintlnFmt(fmt), EprintName, ExitStmt(code)>>
err_code(code, fmt) == <<EprintName, EprintlnFmt(fmt), ExitStmt(code)>>

\* A faulty variant of err: the wrong default code.
err_ExitZero(fmt) == err_code(0, fmt)
err(fmt) == err_code(1, fmt)

\* A faulty variant of warn: the message before the prefix.
warn_MessageFirst(fmt) == <<EprintlnFmt(fmt), EprintName>>
warn(fmt) == <<EprintName, EprintlnFmt(fmt)>>

\* require!($e): the Result shape.
\* A faulty variant: the error rendered in its debug form.
require_result_Debug(e) ==
    IF e.tag = "Ok" THEN <<YieldStmt(e.v)>>
    ELSE err([tmpl |-> <<"Err(", Hole, ")">>, args |-> <<Lit(e.v)>>])
require_result(e) ==
    IF e.tag = "Ok" THEN <<YieldStmt(e.v)>>
    ELSE err([tmpl |-> <<Hole>>, args |-> <<Lit(e.v)>>])

\* require!($e, $($fmt)+): the Option shape.
\* Faulty variants: one that formats the diagnostic whatever the outcome, one
\* that only warns on None.
require_option_Eager(e, fmt) ==
    IF e.tag = "Some" THEN <<EprintlnFmt(fmt), YieldStmt(e.v)>>
    ELSE err(fmt)
require_option_Warn(e, fmt) ==
    IF e.tag = "Some" THEN <<YieldStmt(e.v)>>
    ELSE warn(fmt)
require_option(e, fmt) ==
    IF e.tag = "Some" THEN <<YieldStmt(e.v)>>
    ELSE err(fmt)

\* The statements an invocation expands to.
Expand(call) ==
    CASE call.op = "err_code" -> err_code(call.code, call.fmt)
      [] call.op = "err" -> err(call.fmt)
      [] call.op = "warn" -> warn(call.fmt)
      [] call.op = "require_result" -> require_result(call.e)
      [] call.op = "require_option" -> require_option(call.e, call.fmt)

(***************************************************************************)
(* The process.                                                            *)
(***************************************************************************)
\* An entry of the argument list (an OsString): ok when it is valid Unicode.
Arg(s) == [ok |-> TRUE, s |-> s]
BadArg == [ok |-> FALSE, s |-> ""]

\* The process as started with argument list argv.
Boot(argv) ==
    [argv |-> argv,
     stderr |-> <<>>,
     proc |-> [state |-> "running", status |-> 0, by |-> 0],
     calls |-> <<>>,
     stack |-> [t \in Threads |-> <<>>],
     thr |-> [t \in Threads |-> "running"]]

\* env::args().next().unwrap_or("Error".into()): the first entry as text, or
\* "Error" when there is none; Args::next panics on an entry that is not
\* valid Unicode.
\* (NameResolver_LowerCase: a faulty variant with the wrong fallback.)
NameResolver_LowerCase(argv) ==
    IF argv = <<>> THEN [ok |-> TRUE, name |-> "error"]
    ELSE IF argv[1].ok THEN [ok |-> TRUE, name |-> argv[1].s]
    ELSE [ok |-> FALSE, name |-> ""]
NameResolver(argv) ==
    IF argv = <<>> THEN [ok |-> TRUE, name |-> "Error"]
    ELSE IF argv[1].ok THEN [ok |-> TRUE, name |-> argv[1].s]
    ELSE [ok |-> FALSE, name |-> ""]

\* The text of eprint!("{}: ", name).
\* (Prefix_NoSpace: a faulty variant with the wrong separator.)
Prefix_NoSpace(name) == name \o ":"
Prefix(name) == name \o ": "

\* The text of eprintln!(fmt, vals...).
MessageLine(fmt, vals) == Format(fmt.tmpl, vals) \o "\n"

\* One write to the standard error, with the invocation and thread it is of.
Chunk(id, t, kind, text) == [id |-> id, t |-> t, kind |-> kind, text |-> text]

\* A fresh invocation of call by thread t, made while evaluating an argument
\* of invocation parent (0: made by the caller's own code).
NewCall(t, parent, call) ==
    [t |-> t, parent |-> parent, call |-> call, body |-> Expand(call),
     pc |-> 1, vals |-> <<>>, st |-> "active", cause |-> "none", ret |-> Unit]

TopId(p, t) == p.stack[t][Len(p.stack[t])]
Cur(p, t) == p.calls[TopId(p, t)]
AtEnd(c) == c.pc > Len(c.body)
CurStmt(c) == c.body[c.pc]

\* Thread t is inside an invocation and can take a step of it.
Running(p, t) ==
    /\ p.proc.state = "running"
    /\ p.thr[t] = "running"
    /\ p.stack[t] # <<>>

At(p, t, s) == Running(p, t) /\ ~AtEnd(Cur(p, t)) /\ CurStmt(Cur(p, t)).s = s

\* A failed eprint!/eprintln! or an undecodable argument panics: the thread
\* stops inside the invocation; under panic=abort, or in the main thread
\* once unwound, the process ends too, without any exit code of the caller's.
Panic(p, t, cause, abort) ==
    [p EXCEPT !.thr[t] = "panicked",
              !.calls[TopId(p, t)].st = "panicked",
              !.calls[TopId(p, t)].cause = cause,
              !.proc = IF abort
                       THEN [state |-> "aborted", status |-> 0, by |-> TopId(p, t)]
                       ELSE @]

\* The caller's code in thread t invokes a macro.  Threads are numbered in
\* the order of their first invocation.
CanInvoke(p, t, call) ==
    /\ p.proc.state = "running"
    /\ p.thr[t] = "running"
    /\ p.stack[t] = <<>>
    /\ Len(p.calls) + 1 + NestedIn(call.fmt.args) <= MaxCalls
    /\ \A u \in Threads : u < t => \E i \in 1..Len(p.calls) : p.calls[i].t = u
Invoke(p, t, call) ==
    [p EXCEPT !.calls = Append(@, NewCall(t, 0, call)),
              !.stack[t] = Append(@, Len(p.calls) + 1)]

\* The expansion is done (it ran off its end, or reached a match arm that
\* yields the payload): control is back in the code around the invocation,
\* which for a nested invocation is the block that now yields its value.
CanReturn(p, t) ==
    /\ Running(p, t)
    /\ IF AtEnd(Cur(p, t)) THEN TRUE ELSE CurStmt(Cur(p, t)).s = "yield"
Return(p, t) ==
    LET id == TopId(p, t)
        c == p.calls[id]
        v == IF AtEnd(c) THEN Unit ELSE CurStmt(c).v
        q == [p EXCEPT !.calls[id].st = "returned",
                       !.calls[id].ret = v,
                       !.stack[t] = SubSeq(@, 1, Len(@) - 1)]
    IN  IF c.parent = 0 THEN q
        ELSE LET o == p.calls[c.parent]
                 x == CurStmt(o).fmt.args[Len(o.vals) + 1]
             IN  [q EXCEPT !.calls[c.parent].vals = Append(@, x.v)]

\* After its last statement an expansion falls through to the code around it.
FallThrough(p, t) == IF AtEnd(Cur(p, t)) THEN Return(p, t) ELSE p

\* eprint!("{}: ", <name>): resolve the name, then write the prefix.
Eprint(p, t, ok, abort) ==
    LET r == NameResolver(p.argv)
        id == TopId(p, t)
    IN  IF ~r.ok THEN Panic(p, t, "args", abort)
        ELSE IF ~ok THEN Panic(p, t, "write", abort)
        ELSE FallThrough(
                [p EXCEPT !.stderr = Append(@, Chunk(id, t, "prefix", Prefix(r.name))),
                          !.calls[id].pc = @ + 1], t)

\* The values of the literal arguments that follow those already evaluated,
\* up to the next block argument.
RECURSIVE EvalLits(_, _)
EvalLits(vals, args) ==
    IF Len(vals) < Len(args) /\ args[Len(vals) + 1].kind = "lit"
    THEN EvalLits(Append(vals, args[Len(vals) + 1].v), args)
    ELSE vals

\* eprintln!(fmt...), its arguments: they are evaluated left to right before
\* anything of the message is written; a block argument starts its nested
\* invocation.
CanEvalArg(p, t) ==
    /\ At(p, t, "eprintln")
    /\ Len(EvalLits(Cur(p, t).vals, CurStmt(Cur(p, t)).fmt.args))
         < Len(CurStmt(Cur(p, t)).fmt.args)
EvalArg(p, t) ==
    LET id == TopId(p, t)
        c == p.calls[id]
        vals == EvalLits(c.vals, CurStmt(c).fmt.args)
        x == CurStmt(c).fmt.args[Len(vals) + 1]
    IN  [p EXCEPT !.calls = Append([@ EXCEPT ![id].vals = vals], NewCall(t, id, x.call)),
                  !.stack[t] = Append(@, Len(p.calls) + 1)]

\* eprintln!(fmt...), the write: with every argument evaluated, the formatted
\* message and a newline are written.
CanEprintln(p, t) ==
    /\ At(p, t, "eprintln")
    /\ Len(EvalLits(Cur(p, t).vals, CurStmt(Cur(p, t)).fmt.args))
         = Len(CurStmt(Cur(p, t)).fmt.args)
Eprintln(p, t, ok, abort) ==
    LET id == TopId(p, t)
        c == p.calls[id]
        vals == EvalLits(c.vals, CurStmt(c).fmt.args)
        q == [p EXCEPT !.calls[id].vals = vals]
    IN  IF ~ok THEN Panic(q, t, "write", abort)
        ELSE FallThrough(
                [q EXCEPT !.stderr = Append(@, Chunk(id, t, "message",
                                             MessageLine(CurStmt(c).fmt, vals))),
                          !.calls[id].pc = @ + 1], t)

\* process::exit($code): the whole process ends with that status.
Exit(p, t) ==
    LET id == TopId(p, t)
    IN  [p EXCEPT !.proc = [state |-> "exited",
                            status |-> CurStmt(p.calls[id]).code, by |-> id],
                  !.calls[id].st = "exited"]

\* What thread t does next inside its invocation, given whether the write it
\* may make succeeds and whether a panic ends the process.
Step(p, t, ok, abort) ==
    IF At(p, t, "eprint") THEN Eprint(p, t, ok, abort)
    ELSE IF CanEvalArg(p, t) THEN EvalArg(p, t)
    ELSE IF CanEprintln(p, t) THEN Eprintln(p, t, ok, abort)
    ELSE IF At(p, t, "exit") THEN Exit(p, t)
    ELSE IF CanReturn(p, t) THEN Return(p, t)
    ELSE p

(***************************************************************************)
(* The inputs: argument lists, formats, exit codes and outcomes.           *)
(***************************************************************************)
ArgLists ==
    { <<>>,
      <<Arg("mytool"), Arg("a.txt")>>,
      <<BadArg>>,
      <<Arg("mytool"), BadArg>> }

Call(op, code, fmt, e) == [op |-> op, code |-> code, fmt |-> fmt, e |-> e]

FmtNoStdin == [tmpl |-> <<"no stdin available">>, args |-> <<>>]
FmtCannotRead == [tmpl |-> <<"cannot read ", Hole>>, args |-> <<Lit(Str("a.txt"))>>]
FmtMissing == [tmpl |-> <<"missing file ", Hole>>, args |-> <<Lit(Str("x"))>>]
FmtPathErr == [tmpl |-> <<Hole, ": ", Hole>>, args |-> <<Lit(Str("a.txt")), Lit(Num(13))>>]
\* warn!("cannot read {}", { warn!("no stdin available"); "a.txt" })
FmtNestedWarn ==
    [tmpl |-> <<"cannot read ", Hole>>,
     args |-> <<Block(Call("warn", 0, FmtNoStdin, NoOutcome), Str("a.txt"))>>]
\* ...!("{}: {}", "a.txt", { err_code!(3, "missing file {}", "x"); 13 })
FmtNestedFatal ==
    [tmpl |-> <<Hole, ": ", Hole>>,
     args |-> <<Lit(Str("a.txt")),
                Block(Call("err_code", 3, FmtMissing, NoOutcome), Num(13))>>]

Fmts == {FmtNoStdin, FmtCannotRead, FmtMissing, FmtPathErr, FmtNestedWarn, FmtNestedFatal}
Errors == {Str("disk full"), Num(13)}

Ok(v) == [tag |-> "Ok", v |-> v]
Err(v) == [tag |-> "Err", v |-> v]
Some(v) == [tag |-> "Some", v |-> v]
None == [tag |-> "None", v |-> Unit]

\* The invocations the code of the main thread (thread 1) may make.
TopCalls ==
    {Call("warn", 0, f, NoOutcome) : f \in {FmtCannotRead, FmtNestedWarn, FmtNestedFatal}}
    \cup {Call("err_code", 2, FmtMissing, NoOutcome), Call("err_code", 0, FmtNestedWarn, NoOutcome)}
    \cup {Call("err", 0, FmtNoStdin, NoOutcome)}
    \cup {Call("require_result", 0, NoFmt, Ok(Num(7)))}
    \cup {Call("require_result", 0, NoFmt, Err(v)) : v \in Errors}
    \cup {Call("require_option", 0, FmtNestedWarn, Some(Str("a.txt")))}
    \cup {Call("require_option", 0, f, None) : f \in {FmtNoStdin, FmtNestedWarn}}

\* The invocations the code of the other threads may make.
WorkerCalls ==
    {Call("warn", 0, FmtCannotRead, NoOutcome), Call("err_code", 2, FmtMissing, NoOutcome)}

CallsOf(t) == IF t = 1 THEN TopCalls ELSE WorkerCalls

(***************************************************************************)
(* The process P run by its threads.                                       *)
(***************************************************************************)
Init == \E a \in ArgLists : P = Boot(a) /\ Q = Boot(a)

DoInvoke(t) ==
    \E call \in CallsOf(t) :
        /\ CanInvoke(P, t, call)
        /\ P' = Invoke(P, t, call)
        /\ UNCHANGED Q

DoEprint(t) ==
    /\ At(P, t, "eprint")
    /\ \E ok \in BOOLEAN, abort \in BOOLEAN : P' = Eprint(P, t, ok, abort)
    /\ UNCHANGED Q

DoEvalArg(t) ==
    /\ CanEvalArg(P, t)
    /\ P' = EvalArg(P, t)
    /\ UNCHANGED Q

DoEprintln(t) ==
    /\ CanEprintln(P, t)
    /\ \E ok \in BOOLEAN, abort \in BOOLEAN : P' = Eprintln(P, t, ok, abort)
    /\ UNCHANGED Q

DoExit(t) ==
    /\ At(P, t, "exit")
    /\ P' = Exit(P, t)
    /\ UNCHANGED Q

DoReturn(t) ==
    /\ CanReturn(P, t)
    /\ P' = Return(P, t)
    /\ UNCHANGED Q

Next ==
    \E t \in Threads :
        \/ DoInvoke(t)
        \/ DoEprint(t)
        \/ DoEvalArg(t)
        \/ DoEprintln(t)
        \/ DoExit(t)
        \/ DoReturn(t)

Spec == Init /\ [][Next]_vars

(***************************************************************************)
(* Side by side: P runs err!(fmt) and Q runs err_code!(1, fmt), from the   *)
(* same argument list, each write succeeding or failing in both alike.     *)
(***************************************************************************)
EqInvoke ==
    \E f \in Fmts :
        /\ CanInvoke(P, 1, Call("err", 0, f, NoOutcome))
        /\ CanInvoke(Q, 1, Call("err_code", 1, f, NoOutcome))
        /\ P' = Invoke(P, 1, Call("err", 0, f, NoOutcome))
        /\ Q' = Invoke(Q, 1, Call("err_code", 1, f, NoOutcome))

EqStep ==
    /\ ~(~Running(P, 1) /\ ~Running(Q, 1))
    /\ \E ok \in BOOLEAN, abort \in BOOLEAN :
        /\ P' = Step(P, 1, ok, abort)
        /\ Q' = Step(Q, 1, ok, abort)

EqNext == EqInvoke \/ EqStep

SpecEq == Init /\ [][EqNext]_vars

(***************************************************************************)
(* Reading a process back: what was written, by which invocation.          *)
(***************************************************************************)
RECURSIVE TextOf(_)
TextOf(chunks) == IF chunks = <<>> THEN "" ELSE Head(chunks).text \o TextOf(Tail(chunks))

\* The writes invocation id made itself, in stream order, and their text.
Own(p, id) == SelectSeq(p.stderr, LAMBDA c : c.id = id)
Out(p, id) == TextOf(Own(p, id))
\* The whole content of the standard error.
StreamText(p) == TextOf(p.stderr)

Ids == 1..Len(P.calls)
Positions == 1..Len(P.stderr)

\* The values the argument expressions of a format evaluate to.
ArgValues(fmt) == [k \in 1..Len(fmt.args) |-> fmt.args[k].v]

\* The line the claims expect of a diagnostic: the first entry of the argument
\* list when there is one, "Error" otherwise, then ": ", the formatted message
\* and a newline.
FirstEntryOrError == IF P.argv # <<>> THEN P.argv[1].s ELSE "Error"
LineOf(fmt) == FirstEntryOrError \o ": " \o Format(fmt.tmpl, ArgValues(fmt)) \o "\n"

NameDecodes == P.argv = <<>> \/ P.argv[1].ok

\* An invocation that panicked did so on an undecodable first argument or on
\* a failed write.
PanicHasCause(c) ==
    c.st = "panicked" =>
        \/ c.cause = "args" /\ ~NameDecodes
        \/ c.cause = "write"

\* Invocation i ended the process by process::exit with status code.
ExitedBy(i, code) == P.proc = [state |-> "exited", status |-> code, by |-> i]

\* Invocation i has written its prefix and its message, and so its whole line.
LineComplete(i) == Len(Own(P, i)) = 2

\* With its line complete, all that a fatal invocation can still do is exit.
OnlyExitLeft(c) == c.st = "exited" \/ (~AtEnd(c) /\ CurStmt(c).s = "exit")

(***************************************************************************)
(* C1, as stated: every invocation of warn, for every argument list,       *)
(* appends exactly name + ": " + format(T, A) + "\n", does not end the     *)
(* process and returns.                                                    *)
(***************************************************************************)
C1_AsStated ==
    \A i \in Ids :
        LET c == P.calls[i] IN
        c.call.op = "warn" =>
            /\ c.st # "panicked"
            /\ P.proc.by # i
            /\ c.st = "returned" => Out(P, i) = LineOf(c.call.fmt)

(***************************************************************************)
(* C1, amended: an invocation of warn that returns has appended exactly    *)
(* name + ": " + format(T, A) + "\n"; it returns as soon as its message is *)
(* written and never calls exit; it panics instead only when the first     *)
(* argument is not valid Unicode or a write to the standard error fails.   *)
(***************************************************************************)
C1_WarnLine ==
    \A i \in Ids :
        LET c == P.calls[i] IN
        c.call.op = "warn" =>
            /\ c.st = "returned" => Out(P, i) = LineOf(c.call.fmt)
            /\ LineComplete(i) => c.st = "returned"
            /\ c.st # "exited"
            /\ P.proc.state = "exited" => P.proc.by # i
            /\ PanicHasCause(c)

C1_Witness ==
    \E i \in Ids :
        /\ P.argv = <<Arg("mytool"), Arg("a.txt")>>
        /\ P.calls[i].call = Call("warn", 0, FmtCannotRead, NoOutcome)
        /\ P.calls[i].st = "returned"
        /\ Out(P, i) = "mytool: cannot read a.txt\n"
        /\ P.proc.state = "running"

(***************************************************************************)
(* C2, as stated: every invocation of err_code with code C writes the full *)
(* line and then ends the process with status C; exit never comes before   *)
(* the line is complete and the caller never continues.                    *)
(***************************************************************************)
C2_AsStated ==
    \A i \in Ids :
        LET c == P.calls[i] IN
        c.call.op = "err_code" =>
            /\ c.st # "panicked"
            /\ c.st # "returned"
            /\ c.st = "exited" => Out(P, i) = LineOf(c.call.fmt) /\ ExitedBy(i, c.call.code)

(***************************************************************************)
(* C2, amended: an invocation of err_code with code C exits only after its *)
(* full line is written, and then with status exactly C; once the line is  *)
(* complete nothing but the exit is left; the caller never continues; and  *)
(* the exit is not reached only when the invocation panics on an           *)
(* undecodable first argument or a failed write, its line then incomplete. *)
(***************************************************************************)
C2_ExitAfterLine ==
    \A i \in Ids :
        LET c == P.calls[i] IN
        c.call.op = "err_code" =>
            /\ c.st # "returned"
            /\ c.st = "exited" => Out(P, i) = LineOf(c.call.fmt) /\ ExitedBy(i, c.call.code)
            /\ P.proc.by = i /\ P.proc.state = "exited" => c.st = "exited"
            /\ LineComplete(i) => OnlyExitLeft(c)
            /\ PanicHasCause(c)
            /\ c.st = "panicked" => ~LineComplete(i)

C2_Witness ==
    \E i \in Ids :
        /\ P.argv = <<>>
        /\ P.calls[i].call = Call("err_code", 2, FmtMissing, NoOutcome)
        /\ Out(P, i) = "Error: missing file x\n"
        /\ ExitedBy(i, 2)

(***************************************************************************)
(* C3, as stated: name resolution never fails; every prefix written names  *)
(* the first entry when it exists and decodes, and "Error" when the list   *)
(* is empty or the entry does not decode.                                  *)
(***************************************************************************)
C3_AsStated ==
    /\ \A i \in Ids : P.calls[i].cause # "args"
    /\ \A k \in Positions :
        P.stderr[k].kind = "prefix" =>
            P.stderr[k].text =
                (IF P.argv # <<>> /\ P.argv[1].ok THEN P.argv[1].s ELSE "Error") \o ": "

(***************************************************************************)
(* C3, amended: for an argument list that is empty or whose first entry    *)
(* decodes, the name is the first entry, "Error" when there is none, and   *)
(* resolution does not fail; a first entry that does not decode makes the  *)
(* resolution panic, and no prefix is ever written.                        *)
(***************************************************************************)
C3_NameOrPanic ==
    /\ \A k \in Positions :
        P.stderr[k].kind = "prefix" =>
            \/ P.argv = <<>> /\ P.stderr[k].text = "Error: "
            \/ P.argv # <<>> /\ P.argv[1].ok /\ P.stderr[k].text = P.argv[1].s \o ": "
    /\ \A i \in Ids :
        /\ P.calls[i].cause = "args" => ~NameDecodes /\ P.calls[i].st = "panicked"
        /\ (~NameDecodes /\ P.calls[i].pc > 1) => FALSE
    /\ ~NameDecodes => P.stderr = <<>>

C3_Witness ==
    /\ P.argv = <<>>
    /\ \E k \in Positions : P.stderr[k].kind = "prefix" /\ P.stderr[k].text = "Error: "

(***************************************************************************)
(* C4, as stated: err_code and err end the process with the given code in  *)
(* every execution, those in which a write fails included, and never       *)
(* return.                                                                 *)
(***************************************************************************)
C4_AsStated ==
    \A i \in Ids :
        LET c == P.calls[i] IN
        c.call.op \in {"err_code", "err"} =>
            /\ ~(c.st = "panicked" /\ c.cause = "write")
            /\ c.st # "returned"

(***************************************************************************)
(* C4, amended: err_code and err never return to the caller; they reach    *)
(* the exit only with both writes made, and then end the process with the  *)
(* given code (1 for err); when a write fails, or the first argument does  *)
(* not decode, the invocation panics and never ends the process with the   *)
(* given code.                                                             *)
(***************************************************************************)
C4_ExitUnlessPanic ==
    \A i \in Ids :
        LET c == P.calls[i]
            code == IF c.call.op = "err" THEN 1 ELSE c.call.code
        IN  c.call.op \in {"err_code", "err"} =>
            /\ c.st # "returned"
            /\ c.st = "exited" => ExitedBy(i, code)
            /\ (~AtEnd(c) /\ CurStmt(c).s = "exit") => LineComplete(i)
            /\ PanicHasCause(c)
            /\ c.st = "panicked" => P.proc.state # "exited" \/ P.proc.by # i

C4_Witness ==
    \E i \in Ids :
        /\ P.calls[i].call = Call("err", 0, FmtNoStdin, NoOutcome)
        /\ LineComplete(i)
        /\ ExitedBy(i, 1)

C7_AsStated ==
    \A i \in Ids :
        LET c == P.calls[i] IN
        (c.call.op = "require_option" /\ c.call.e.tag = "None") =>
            /\ c.st # "panicked"
            /\ c.st # "returned"
            /\ c.st = "exited" => Out(P, i) = LineOf(c.call.fmt) /\ ExitedBy(i, 1)

(***************************************************************************)
(* C7, amended: require on None never yields a value; it exits only after  *)
(* writing exactly name + ": " + format(U, args) + "\n", and then with     *)
(* status 1; once that line is complete nothing but the exit is left; it   *)
(* fails to exit only by panicking on an undecodable first argument or a   *)
(* failed write.                                                           *)
(***************************************************************************)
C7_RequireNone ==
    \A i \in Ids :
        LET c == P.calls[i] IN
        (c.call.op = "require_option" /\ c.call.e.tag = "None") =>
            /\ c.st # "returned"
            /\ c.st = "exited" => Out(P, i) = LineOf(c.call.fmt) /\ ExitedBy(i, 1)
            /\ LineComplete(i) => Out(P, i) = LineOf(c.call.fmt) /\ OnlyExitLeft(c)
            /\ PanicHasCause(c)

C7_Witness ==
    \E i \in Ids :
        /\ P.argv = <<>>
        /\ P.calls[i].call = Call("require_option", 0, FmtNoStdin, None)
        /\ Out(P, i) = "Error: no stdin available\n"
        /\ ExitedBy(i, 1)

(***************************************************************************)
(* C8: run side by side from the same argument list and with the same      *)
(* write outcomes, err!(fmt) and err_code!(1, fmt) leave the same content  *)
(* on the standard error and the same termination state and exit status.   *)
(***************************************************************************)
C8_ErrIsErrCode1 ==
    /\ StreamText(P) = StreamText(Q)
    /\ P.proc.state = Q.proc.state
    /\ P.proc.status = Q.proc.status
    /\ P.thr = Q.thr

C8_Witness ==
    /\ P.calls # <<>> /\ P.calls[1].call = Call("err", 0, FmtPathErr, NoOutcome)
    /\ Q.calls # <<>> /\ Q.calls[1].call = Call("err_code", 1, FmtPathErr, NoOutcome)
    /\ StreamText(P) = "mytool: a.txt: 13\n"
    /\ P.proc.state = "exited" /\ P.proc.status = 1

(***************************************************************************)
(* C9: an invocation makes two separate writes and no more, its prefix     *)
(* always before its message; nothing keeps the writes of another thread   *)
(* from falling between the two.                                           *)
(***************************************************************************)
C9_OwnWritesInOrder ==
    /\ \A i \in Ids : Len(Own(P, i)) <= 2
    /\ \A k \in Positions, l \in Positions :
        (k < l /\ P.stderr[k].id = P.stderr[l].id) =>
            P.stderr[k].kind = "prefix" /\ P.stderr[l].kind = "message"

\* The prefix and the message of one warn, split by the output of a warn of
\* another thread.
C9_Witness ==
    \E k \in Positions, m \in Positions, l \in Positions :
        /\ k < m /\ m < l
        /\ P.stderr[k].id = P.stderr[l].id
        /\ P.stderr[k].kind = "prefix" /\ P.stderr[l].kind = "message"
        /\ P.stderr[m].t # P.stderr[k].t
        /\ P.calls[P.stderr[k].id].call.op = "warn"
        /\ P.calls[P.stderr[m].id].call.op = "warn"

(***************************************************************************)
(* C10: the prefix of warn and of err_code is written before any argument  *)
(* of the message is evaluated: an invocation made while evaluating an     *)
(* argument starts with the outer prefix already written, and all it       *)
(* writes falls after that prefix and before the outer message.            *)
(***************************************************************************)
C10_PrefixBeforeArgs ==
    /\ \A i \in Ids :
        LET c == P.calls[i] IN
        (c.vals # <<>> \/ \E j \in Ids : P.calls[j].parent = i) =>
            \E k \in Positions : P.stderr[k].id = i /\ P.stderr[k].kind = "prefix"
    /\ \A j \in Ids :
        LET o == P.calls[j].parent IN
        o # 0 =>
            \A l \in Positions :
                P.stderr[l].id = j =>
                    /\ \E k \in 1..(l - 1) : P.stderr[k].id = o /\ P.stderr[k].kind = "prefix"
                    /\ \A k \in 1..l : ~(P.stderr[k].id = o /\ P.stderr[k].kind = "message")

\* One thread: outer prefix, the inner call's whole line, outer message.
C10_Witness ==
    /\ Len(P.calls) = 2 /\ P.calls[2].parent = 1
    /\ P.calls[1].call = Call("warn", 0, FmtNestedWarn, NoOutcome)
    /\ [k \in 1..Len(P.stderr) |-> <<P.stderr[k].id, P.stderr[k].kind>>]
         = << <<1, "prefix">>, <<2, "prefix">>, <<2, "message">>, <<1, "message">> >>
    /\ StreamText(P) = "mytool: mytool: no stdin available\ncannot read a.txt\n"

====
